---- MODULE Spec2Model ----
(***************************************************************************)
(* A model of ketos' value decoder (src/src/ketos/value_decode.rs).        *)
(*                                                                         *)
(* The decoder is a recursive-descent traversal of a Value tree, driven by *)
(* the typed-decode protocol (serde): the target type calls one            *)
(* deserialize_* handler, the handler calls one visitor callback, and the  *)
(* visitor may call back into the engine through the SeqVisitor,           *)
(* MapVisitor, Variant and UnitVariant access objects.  The recursion is   *)
(* modelled by an explicit control stack `ctl` (the Rust call stack: the   *)
(* program points still to run), next to the engine's own cursor stack     *)
(* `state` (VDeserializer::state).  One action is one handler or one       *)
(* access method, cut at the points where it hands control to the visitor. *)
(***************************************************************************)
EXTENDS Integers, Sequences, FiniteSets, TLC

VARIABLES
    ty,      \* the target type T of decode_value::<T>
    src,     \* the root value handed to decode_value
    state,   \* VDeserializer::state, the cursor stack (top = last element)
    ctl,     \* the program points still to run (top = first element)
    vals,    \* values the visitors have produced so far (top = last element)
    status,  \* "running", "ok" (Ok(v)), "err" (Err(e)) or "fatal" (panic!)
    err,     \* the kind of the reported error, or the panic message
    reads,   \* history: every value next_value has returned, in order
    hist     \* history: one record per engine event (frames pushed and popped,
             \* keys and values handed to visitors), in order

vars == <<ty, src, state, ctl, vals, status, err, reads, hist>>

----------------------------------------------------------------------------
(* Bounds of the model.                                                    *)

\* Elements a source list may carry beyond what its target declares.
MaxExtra == 1
\* Longest source list offered to a target of open length (Vec<T>).
MaxLen == 3
\* Most entries of a source mapping.
MaxEntries == 2

----------------------------------------------------------------------------
(* The value tree (crate::value::Value), as far as the decoder inspects it *)
(* Every value is a record of the same shape: a tag, an integer payload    *)
(* (numbers in tenths for floats, the interned id for symbols), a string   *)
(* payload and the elements of a list.                                     *)

VUnit == [tag |-> "Unit", n |-> 0, s |-> "", items |-> <<>>]
\* b is 1 for true and 0 for false.
VBool(b) == [tag |-> "Bool", n |-> b, s |-> "", items |-> <<>>]
VInt(i) == [tag |-> "Integer", n |-> i, s |-> "", items |-> <<>>]
VFloat(f) == [tag |-> "Float", n |-> f, s |-> "", items |-> <<>>]
VString(t) == [tag |-> "String", n |-> 0, s |-> t, items |-> <<>>]
VKeyword(id) == [tag |-> "Keyword", n |-> id, s |-> "", items |-> <<>>]
VName(id) == [tag |-> "Name", n |-> id, s |-> "", items |-> <<>>]
VList(xs) == [tag |-> "List", n |-> 0, s |-> "", items |-> xs]

\* The interned symbols of the scope: Name(id) resolves to NameText[id].
NameText ==
    << "Point", "Wrong", "Person", "name", "age", "Circle", "Square",
       "Rect", "side", "Red", "Green", "Blue", "Marker", "Wrap", "Both" >>

\* The interned id of a text (the encoder's and the reader's direction).
Intern(t) == CHOOSE i \in 1..Len(NameText) : NameText[i] = t

\* Scope::with_name(name, f): resolves the id and passes the text to f.
WithName(id) == NameText[id]

Sym(t) == VName(Intern(t))
Kw(t) == VKeyword(Intern(t))

----------------------------------------------------------------------------
(* Target types: what T::deserialize asks of the Deserializer.             *)

TScalar(k) == [k |-> k, name |-> "", elems |-> <<>>, fields |-> <<>>, variants |-> <<>>]
TOption(t) == [k |-> "option", name |-> "", elems |-> <<t>>, fields |-> <<>>, variants |-> <<>>]
TSeq(t) == [k |-> "seq", name |-> "", elems |-> <<t>>, fields |-> <<>>, variants |-> <<>>]
TTuple(ts) == [k |-> "tuple", name |-> "", elems |-> ts, fields |-> <<>>, variants |-> <<>>]
TMap(kt, vt) == [k |-> "map", name |-> "", elems |-> <<kt, vt>>, fields |-> <<>>, variants |-> <<>>]
TUnitStruct(nm) == [k |-> "unit_struct", name |-> nm, elems |-> <<>>, fields |-> <<>>, variants |-> <<>>]
TTupleStruct(nm, ts) == [k |-> "tuple_struct", name |-> nm, elems |-> ts, fields |-> <<>>, variants |-> <<>>]
TStruct(nm, fs, ts) == [k |-> "struct", name |-> nm, elems |-> ts, fields |-> fs, variants |-> <<>>]
TEnum(nm, vs) == [k |-> "enum", name |-> nm, elems |-> <<>>, fields |-> <<>>, variants |-> vs]

\* A variant of an enum: shape is "unit", "newtype", "tuple" or "struct".
Var(nm, shape, ts, fs) == [name |-> nm, shape |-> shape, elems |-> ts, fields |-> fs]

TBool == TScalar("bool")
TI32 == TScalar("i32")
TU8 == TScalar("u8")
TF64 == TScalar("f64")
TStr == TScalar("str")
TString == TScalar("string")
TUnit == TScalar("unit")
TIdentifier == TScalar("identifier")
TIgnored == TScalar("ignored_any")

\* struct Point(i32, i32);
TPoint == TTupleStruct("Point", <<TI32, TI32>>)
\* struct Person { name: String, age: u8 }
TPerson == TStruct("Person", <<"name", "age">>, <<TString, TU8>>)
\* struct Marker;
TMarker == TUnitStruct("Marker")
\* enum Shape { Circle(f64), Square { side: f64 }, Rect(f64, f64) }
TShape ==
    TEnum("Shape",
          << Var("Circle", "newtype", <<TF64>>, <<>>),
             Var("Square", "struct", <<TF64>>, <<"side">>),
             Var("Rect", "tuple", <<TF64, TF64>>, <<>>) >>)
\* enum Outer { Wrap(Shape), Both(Shape, f64) }
TOuter ==
    TEnum("Outer",
          << Var("Wrap", "newtype", <<TShape>>, <<>>),
             Var("Both", "tuple", <<TShape, TF64>>, <<>>) >>)
\* enum Color { Red, Green, Blue }
TColor ==
    TEnum("Color",
          << Var("Red", "unit", <<>>, <<>>),
             Var("Green", "unit", <<>>, <<>>),
             Var("Blue", "unit", <<>>, <<>>) >>)

----------------------------------------------------------------------------
(* Decoded host values, in the same record shape as the value tree.        *)

Host(tag, n, s, items) == [tag |-> tag, n |-> n, s |-> s, items |-> items]
HNone == Host("None", 0, "", <<>>)
HUnit == Host("unit", 0, "", <<>>)

----------------------------------------------------------------------------
(* The cursor stack: DeserializeState::Value(v) and ::Seq(iter).  An       *)
(* iterator over a slice is the sequence of elements it has yet to yield.  *)

FValue(v) == [kind |-> "Value", v |-> v, iter |-> <<>>]
FSeq(xs) == [kind |-> "Seq", v |-> VUnit, iter |-> xs]

Pop(st) == SubSeq(st, 1, Len(st) - 1)
Top(st) == st[Len(st)]

\* The outcome of an engine primitive: out is "ok", "err" (a reported
\* ExecError of kind e) or "fatal" (panic! with message e); v and n are the
\* value and the count it returns, st the cursor stack it leaves, rd the
\* values it took with next_value, ev the frames it pushed and popped.
Res(out, e, v, n, st, rd, ev) ==
    [out |-> out, e |-> e, v |-> v, n |-> n, st |-> st, rd |-> rd, ev |-> ev]

Ev(what, depth) == [ev |-> what, depth |-> depth, v |-> VUnit]
EvV(what, depth, v) == [ev |-> what, depth |-> depth, v |-> v]

\* The reported error kinds (ExecError) and the panic messages.
EndOfSequence == "unexpected end of sequence"
Extraneous == "extraneous elements in sequence"
NameMismatch == "expected struct X; found Y"
OddKeywordParams == "odd keyword params"
TypeMismatch == "type mismatch"
MissingState == "missing value state"
NotASequence == "not a sequence"
StateNotEmpty == "decode state is not empty"
NotImplemented == "not implemented"
\* de::Error::custom(msg), raised by the target type's own visitor.
InvalidLength == "custom: invalid length"
UnknownVariant == "custom: unknown variant"
MissingField == "custom: missing field"
DuplicateField == "custom: duplicate field"

\* VDeserializer::next_value
next_value(st) ==
    IF st = <<>> THEN Res("fatal", MissingState, VUnit, 0, st, <<>>, <<>>)
    ELSE IF Top(st).kind = "Value"
         THEN Res("ok", "", Top(st).v, 0, Pop(st), <<Top(st).v>>, <<>>)
         ELSE IF Top(st).iter # <<>>
              THEN Res("ok", "", Head(Top(st).iter), 0,
                       Append(Pop(st), FSeq(Tail(Top(st).iter))),
                       <<Head(Top(st).iter)>>, <<>>)
              ELSE Res("err", EndOfSequence, VUnit, 0, Pop(st), <<>>, <<>>)

\* peek_value that takes the value it looks at.
peek_value_taking(st) == next_value(st)

\* VDeserializer::peek_value
peek_value(st) ==
    IF st = <<>> THEN Res("fatal", MissingState, VUnit, 0, st, <<>>, <<>>)
    ELSE IF Top(st).kind = "Value"
         THEN Res("ok", "", Top(st).v, 0, st, <<>>, <<>>)
         ELSE IF Top(st).iter # <<>>
              THEN Res("ok", "", Head(Top(st).iter), 0, st, <<>>, <<>>)
              ELSE Res("err", EndOfSequence, VUnit, 0, st, <<>>, <<>>)

\* X::from_value_ref for the scalar kinds: the tag a value must carry.
ScalarTag(k) ==
    CASE k = "bool" -> "Bool"
      [] k = "i32" -> "Integer"
      [] k = "u8" -> "Integer"
      [] k = "f64" -> "Float"
      [] k = "str" -> "String"
      [] k = "unit" -> "Unit"
      [] OTHER -> "none"

\* Sequential composition `a?; b`: b runs on what a left, histories add up.
Then(a, b) == [b EXCEPT !.rd = a.rd \o b.rd, !.ev = a.ev \o b.ev]

\* read_name's match on the value it read.
expect_name(r) ==
    IF r.out # "ok" THEN r
    ELSE IF r.v.tag = "Name" THEN r
         ELSE Res("err", TypeMismatch, VUnit, 0, r.st, r.rd, r.ev)

\* read_name that leaves the name where it is.
read_name_peek(st) == expect_name(peek_value(st))

\* VDeserializer::read_name
read_name(st) == expect_name(next_value(st))

\* <&[Value]>::from_value_ref: the value must be a list.
IsList(v) == v.tag = "List"

\* enter_seq's conversion of the value it read and its push of the frame.
push_seq(r) ==
    IF r.out # "ok" THEN r
    ELSE IF ~IsList(r.v) THEN Res("err", TypeMismatch, VUnit, 0, r.st, r.rd, r.ev)
         ELSE Res("ok", "", r.v, Len(r.v.items), Append(r.st, FSeq(r.v.items)),
                  r.rd, <<EvV("push", Len(r.st) + 1, r.v)>>)

\* VDeserializer::enter_seq
enter_seq(st) == push_seq(next_value(st))

\* leave_seq without its check that the frame is exhausted.
leave_seq_unchecked(st) ==
    IF st = <<>> THEN Res("fatal", MissingState, VUnit, 0, st, <<>>, <<>>)
    ELSE IF Top(st).kind = "Value"
         THEN Res("fatal", NotASequence, VUnit, 0, Pop(st), <<>>, <<>>)
         ELSE Res("ok", "", VUnit, 0, Pop(st), <<>>, <<Ev("pop", Len(st))>>)

\* VDeserializer::leave_seq
leave_seq(st) ==
    IF st = <<>> THEN Res("fatal", MissingState, VUnit, 0, st, <<>>, <<>>)
    ELSE IF Top(st).kind = "Value"
         THEN Res("fatal", NotASequence, VUnit, 0, Pop(st), <<>>, <<>>)
         ELSE IF Top(st).iter # <<>>
              THEN Res("err", Extraneous, VUnit, 0, Pop(st), <<>>, <<Ev("pop", Len(st))>>)
              ELSE Res("ok", "", VUnit, 0, Pop(st), <<>>, <<Ev("pop", Len(st))>>)

\* `a?; self.read_name()`, and the same for the other primitives.
then_read_name(a) == IF a.out # "ok" THEN a ELSE Then(a, read_name(a.st))
then_next_value(a) == IF a.out # "ok" THEN a ELSE Then(a, next_value(a.st))
then_enter_seq(a) == IF a.out # "ok" THEN a ELSE Then(a, enter_seq(a.st))
then_leave_seq(a) == IF a.out # "ok" THEN a ELSE Then(a, leave_seq(a.st))

\* begin_struct without its comparison of the names.
check_name_any(b, name) ==
    IF b.out # "ok" THEN b ELSE Res("ok", "", VUnit, 0, b.st, b.rd, b.ev)

\* begin_struct's comparison of the resolved name with the expected one.
check_name(b, name) ==
    IF b.out # "ok" THEN b
    ELSE IF WithName(b.v.n) # name
         THEN Res("err", NameMismatch, VUnit, 0, b.st, b.rd, b.ev)
         ELSE Res("ok", "", VUnit, 0, b.st, b.rd, b.ev)

\* VDeserializer::begin_struct
begin_struct(st, name) == check_name(then_read_name(enter_seq(st)), name)

\* enter_fields without its check of the element count.
check_even_skip(a) ==
    IF a.out # "ok" THEN a
    ELSE Res("ok", "", VUnit, a.n \div 2, a.st, a.rd, a.ev)

\* enter_fields that counts elements where it should count pairs.
check_even_whole(a) ==
    IF a.out # "ok" THEN a
    ELSE IF a.n % 2 = 1
         THEN Res("err", OddKeywordParams, VUnit, 0, a.st, a.rd, a.ev)
         ELSE Res("ok", "", VUnit, a.n, a.st, a.rd, a.ev)

\* enter_fields' check of the element count.
check_even(a) ==
    IF a.out # "ok" THEN a
    ELSE IF a.n % 2 = 1
         THEN Res("err", OddKeywordParams, VUnit, 0, a.st, a.rd, a.ev)
         ELSE Res("ok", "", VUnit, a.n \div 2, a.st, a.rd, a.ev)

\* VDeserializer::enter_fields
enter_fields(st) == check_even(enter_seq(st))

then_enter_fields(a) == IF a.out # "ok" THEN a ELSE Then(a, enter_fields(a.st))

\* VDeserializer::enter_struct
enter_struct(st, name) == then_enter_fields(begin_struct(st, name))

\* enter_tuple_struct that reads the fields beside the name: no nested list
\* is entered, the fields are the elements left in the record's own list.
count_rest(a) ==
    IF a.out # "ok" THEN a
    ELSE Res("ok", "", VUnit, Len(Top(a.st).iter), a.st, a.rd, a.ev)
enter_tuple_struct_flat(st, name) == count_rest(begin_struct(st, name))

\* VDeserializer::enter_tuple_struct
enter_tuple_struct(st, name) == then_enter_seq(begin_struct(st, name))

\* X::from_value_ref for a scalar kind k: the value must carry k's tag, and
\* an integer must fit the width asked for.
from_value_ref(k, v) ==
    /\ v.tag = ScalarTag(k)
    /\ k = "u8" => v.n \in 0..255
    /\ k = "i32" => v.n >= -2147483647 - 1 /\ v.n <= 2147483647

----------------------------------------------------------------------------
(* Program points: what the call stack still has to run.                   *)

\* T::deserialize(de) is about to be called for target type t.
CDeser(t) == [op |-> "deserialize", ty |-> t]
\* A pending `self.leave_seq()?` of a handler or access method.
CLeave == [op |-> "leave_seq"]
\* Inside visitor.visit_seq(SeqVisitor { de, n }): the visitor has taken `got`
\* elements; a Vec visitor (vec) asks on until None for elements of type
\* elem, a tuple visitor asks once per type in want.  It builds Host(tag, s).
CVisitSeq(n, vec, elem, want, got, tag, s) ==
    [op |-> "visit_seq", n |-> n, vec |-> vec, elem |-> elem, want |-> want,
     got |-> got, tag |-> tag, s |-> s]
\* Inside visitor.visit_map(MapVisitor { de, n, is_struct }): the visitor has
\* taken `got` entries, of the fields in seen; d names the declared fields
\* (fields, elems) or the key and value types (elems).
CVisitMap(n, is_struct, d, got, seen, tag) ==
    [op |-> "visit_map", n |-> n, is_struct |-> is_struct, d |-> d, got |-> got,
     seen |-> seen, tag |-> tag]
\* The visitor holds a key and is about to call next_value_seed.
CMapValue == [op |-> "map_value"]
\* Inside visitor.visit_enum(access): the visitor is about to call
\* access.variant_seed; access is UnitVariant (unit) or Variant.
CVariantSeed(unit, t) == [op |-> "variant_seed", unit |-> unit, ty |-> t]
\* The visitor holds variant v and is about to call its VariantAccess method.
CAccess(v) == [op |-> "variant_access", var |-> v]
\* A visitor is about to return Host(tag, s) around the last k values.
CBuild(tag, s, k) == [op |-> "build", tag |-> tag, s |-> s, k |-> k]

Running == status = "running" /\ ctl # <<>>
At(op) == Running /\ Head(ctl).op = op
AtTy(ks) == At("deserialize") /\ Head(ctl).ty.k \in ks

\* The last k values produced, oldest first.
LastVals(k) == SubSeq(vals, Len(vals) - k + 1, Len(vals))
DropVals(k) == SubSeq(vals, 1, Len(vals) - k)

\* The decode stops: `?` returns the error up to decode_value's caller, a
\* panic unwinds.
Fail(out, e, st, rd, ev) ==
    /\ status' = out
    /\ err' = e
    /\ state' = st
    /\ ctl' = <<>>
    /\ vals' = vals
    /\ reads' = reads \o rd
    /\ hist' = hist \o ev
    /\ UNCHANGED <<ty, src>>

Abort(r) == Fail(r.out, r.e, r.st, r.rd, r.ev)

\* The decode goes on after primitive outcome r, with control c and values v.
Go(r, ev, c, v) ==
    /\ state' = r.st
    /\ ctl' = c
    /\ vals' = v
    /\ reads' = reads \o r.rd
    /\ hist' = hist \o r.ev \o ev
    /\ UNCHANGED <<ty, src, status, err>>

\* A step that touches only control and values (visitor code).
Ctl(ev, c, v) ==
    /\ ctl' = c
    /\ vals' = v
    /\ hist' = hist \o ev
    /\ UNCHANGED <<ty, src, status, err, state, reads>>

----------------------------------------------------------------------------
(* Scalar decoding.                                                        *)

\* deserialize_any that reports an error to the caller where it should panic.
deserialize_any_reported ==
    /\ AtTy({"any"})
    /\ Fail("err", NotImplemented, state, <<>>, <<>>)

\* deserialize_any
deserialize_any ==
    /\ AtTy({"any"})
    /\ Fail("fatal", NotImplemented, state, <<>>, <<>>)

\* deserialize_bool, deserialize_i32, deserialize_u8, deserialize_f64 and
\* deserialize_str (and the other integer widths, which differ in the
\* conversion only)
deserialize_scalar ==
    /\ AtTy({"bool", "i32", "u8", "f64", "str"})
    /\ \E r \in {next_value(state)} :
       LET k == Head(ctl).ty.k
       IN  IF r.out # "ok" THEN Abort(r)
           ELSE IF ~from_value_ref(k, r.v)
                THEN Fail("err", TypeMismatch, r.st, r.rd, r.ev)
                ELSE Go(r, <<EvV("visit", Len(r.st), r.v)>>, Tail(ctl),
                        Append(vals, Host(k, r.v.n, r.v.s, <<>>)))

\* deserialize_string
deserialize_string ==
    /\ AtTy({"string"})
    /\ \E r \in {next_value(state)} :
           IF r.out # "ok" THEN Abort(r)
           ELSE IF r.v.tag = "String"
                THEN Go(r, <<EvV("visit", Len(r.st), r.v)>>, Tail(ctl),
                        Append(vals, Host("string", 0, r.v.s, <<>>)))
                ELSE IF r.v.tag = "Keyword"
                     THEN Go(r, <<EvV("visit", Len(r.st), r.v)>>, Tail(ctl),
                             Append(vals, Host("string", 0, WithName(r.v.n), <<>>)))
                     ELSE Fail("err", TypeMismatch, r.st, r.rd, r.ev)

\* deserialize_unit
deserialize_unit ==
    /\ AtTy({"unit"})
    /\ \E r \in {next_value(state)} :
           IF r.out # "ok" THEN Abort(r)
           ELSE IF ~from_value_ref("unit", r.v)
                THEN Fail("err", TypeMismatch, r.st, r.rd, r.ev)
                ELSE Go(r, <<EvV("visit", Len(r.st), r.v)>>, Tail(ctl),
                        Append(vals, HUnit))

\* deserialize_option
deserialize_option ==
    /\ AtTy({"option"})
    /\ \E p \in {peek_value(state)} :
           IF p.out # "ok" THEN Abort(p)
           ELSE IF p.v.tag = "Unit"
                THEN \E r \in {next_value(state)} :
                         Go(r, <<EvV("visit_none", Len(r.st), p.v)>>, Tail(ctl),
                            Append(vals, HNone))
                ELSE Go(p, <<EvV("visit_some", Len(p.st), p.v)>>,
                        <<CDeser(Head(ctl).ty.elems[1]), CBuild("Some", "", 1)>>
                            \o Tail(ctl),
                        vals)

\* deserialize_identifier
deserialize_identifier ==
    /\ AtTy({"identifier"})
    /\ \E r \in {next_value(state)} :
           IF r.out # "ok" THEN Abort(r)
           ELSE IF r.v.tag \in {"Keyword", "Name"}
                THEN Go(r, <<EvV("visit", Len(r.st), r.v)>>, Tail(ctl),
                        Append(vals, Host("identifier", 0, WithName(r.v.n), <<>>)))
                ELSE Fail("err", TypeMismatch, r.st, r.rd, r.ev)

\* deserialize_ignored_any
deserialize_ignored_any ==
    /\ AtTy({"ignored_any"})
    /\ \E r \in {next_value(state)} :
           IF r.out # "ok" THEN Abort(r)
           ELSE Go(r, <<EvV("visit", Len(r.st), r.v)>>, Tail(ctl),
                   Append(vals, HUnit))

\* A visitor returns the value it built around what it decoded (visit_some,
\* the newtype variant's arm of visit_enum).
visitor_return ==
    /\ At("build")
    /\ LET b == Head(ctl)
       IN  Ctl(<<>>, Tail(ctl),
               Append(DropVals(b.k), Host(b.tag, 0, b.s, LastVals(b.k))))

----------------------------------------------------------------------------
(* Structural decoding: sequences, tuples, mappings, records.              *)

\* What a tuple-like visitor (tuple, tuple struct, tuple variant) needs of
\* visit_map's descriptor; a mapping has a key and a value type.
Desc(nm, fs, ts) == [name |-> nm, fields |-> fs, elems |-> ts]

\* deserialize_seq, and deserialize_tuple, deserialize_bytes and
\* deserialize_byte_buf, which forward to it: up to the visitor's call.
deserialize_seq ==
    /\ AtTy({"seq", "tuple"})
    /\ \E r \in {enter_seq(state)} :
       LET t == Head(ctl).ty
       IN  IF r.out # "ok" THEN Abort(r)
           ELSE Go(r, <<EvV("visit_seq", Len(r.st), r.v)>>,
                   << IF t.k = "seq"
                      THEN CVisitSeq(r.n, TRUE, t.elems[1], <<>>, 0, "seq", "")
                      ELSE CVisitSeq(r.n, FALSE, TUnit, t.elems, 0, "tuple", ""),
                      CLeave >> \o Tail(ctl),
                   vals)

\* SeqVisitor::next_element_seed, called by a visitor that wants an element.
\* On None a Vec visitor returns what it has and a tuple visitor reports
\* invalid_length.
next_element_seed ==
    /\ At("visit_seq")
    /\ Head(ctl).vec \/ Head(ctl).want # <<>>
    /\ LET c == Head(ctl)
       IN  IF c.n = 0
           THEN IF c.vec
                THEN Ctl(<<>>, Tail(ctl),
                         Append(DropVals(c.got), Host(c.tag, 0, c.s, LastVals(c.got))))
                ELSE Fail("err", InvalidLength, state, <<>>, <<>>)
           ELSE Ctl(<<>>,
                    << CDeser(IF c.vec THEN c.elem ELSE Head(c.want)),
                       [c EXCEPT !.n = c.n - 1, !.got = c.got + 1,
                                 !.want = IF c.vec THEN <<>> ELSE Tail(c.want)] >>
                        \o Tail(ctl),
                    vals)

\* A tuple visitor that has all its elements returns from visit_seq.
visit_seq_return ==
    /\ At("visit_seq")
    /\ ~Head(ctl).vec /\ Head(ctl).want = <<>>
    /\ LET c == Head(ctl)
       IN  Ctl(<<>>, Tail(ctl),
               Append(DropVals(c.got), Host(c.tag, 0, c.s, LastVals(c.got))))

\* The `self.leave_seq()?` that ends deserialize_seq, deserialize_map,
\* deserialize_tuple_struct, deserialize_struct, the Variant access methods
\* and MapVisitor::next_value_seed.
leave ==
    /\ At("leave_seq")
    /\ \E r \in {leave_seq(state)} :
           IF r.out # "ok" THEN Abort(r) ELSE Go(r, <<>>, Tail(ctl), vals)

\* deserialize_map: up to the visitor's call.
deserialize_map ==
    /\ AtTy({"map"})
    /\ \E r \in {enter_seq(state)} :
       LET t == Head(ctl).ty
       IN  IF r.out # "ok" THEN Abort(r)
           ELSE Go(r, <<EvV("visit_map", Len(r.st), r.v)>>,
                   << CVisitMap(r.n, FALSE, Desc("", <<>>, t.elems), 0, {}, "map"),
                      CLeave >> \o Tail(ctl),
                   vals)

\* The entries a map visitor has taken: its last 2 * got values, paired.
Entries(got) ==
    [i \in 1..got |->
        Host("entry", 0, "", << LastVals(2 * got)[2 * i - 1], LastVals(2 * got)[2 * i] >>)]

\* The fields a struct visitor has taken, in declaration order.
FieldsOf(d, got) ==
    [i \in 1..Len(d.fields) |->
        LET j == CHOOSE j \in 1..got : Entries(got)[j].items[1].s = d.fields[i]
        IN  Host("field", 0, d.fields[i], <<Entries(got)[j].items[2]>>)]

\* MapVisitor::next_key_seed, called by the visitor's loop.  On None a map
\* visitor returns its entries; a struct visitor reports a missing field or
\* returns the record.
next_key_seed ==
    /\ At("visit_map")
    /\ LET c == Head(ctl)
           c2 == [c EXCEPT !.n = c.n - 1, !.got = c.got + 1]
       IN  IF c.n = 0
           THEN IF ~c.is_struct
                THEN Ctl(<<>>, Tail(ctl),
                         Append(DropVals(2 * c.got), Host(c.tag, 0, "", Entries(c.got))))
                ELSE IF \E i \in 1..Len(c.d.fields) : c.d.fields[i] \notin c.seen
                     THEN Fail("err", MissingField, state, <<>>, <<>>)
                     ELSE Ctl(<<>>, Tail(ctl),
                              Append(DropVals(2 * c.got),
                                     Host(c.tag, 0, c.d.name, FieldsOf(c.d, c.got))))
           ELSE IF ~c.is_struct
                THEN \E r \in {enter_seq(state)} :
                         IF r.out # "ok" THEN Abort(r)
                         ELSE Go(r, <<>>,
                                 <<CDeser(c.d.elems[1]), CMapValue, c2>> \o Tail(ctl),
                                 vals)
                ELSE Ctl(<<>>, <<CDeser(TIdentifier), CMapValue, c2>> \o Tail(ctl), vals)

\* MapVisitor::next_value_seed, called by the visitor that holds a key: a
\* struct visitor rejects a repeated field, skips an unknown one, and asks
\* for a known one's type; a map visitor asks for the value type.
next_value_seed ==
    /\ At("map_value")
    /\ LET c == ctl[2]
           key == vals[Len(vals)]
           rest == Tail(Tail(ctl))
       IN  IF c.is_struct
           THEN IF \E i \in 1..Len(c.d.fields) : c.d.fields[i] = key.s
                THEN IF key.s \in c.seen
                     THEN Fail("err", DuplicateField, state, <<>>, <<>>)
                     ELSE LET i == CHOOSE i \in 1..Len(c.d.fields) : c.d.fields[i] = key.s
                          IN  Ctl(<<EvV("field", Len(state), key)>>,
                                  << CDeser(c.d.elems[i]),
                                     [c EXCEPT !.seen = c.seen \cup {key.s}] >> \o rest,
                                  vals)
                ELSE Ctl(<<EvV("field", Len(state), key)>>,
                         <<CDeser(TIgnored), c>> \o rest, vals)
           ELSE Ctl(<<EvV("key", Len(state), key)>>,
                    <<CDeser(c.d.elems[2]), CLeave, c>> \o rest, vals)

\* deserialize_tuple_struct, and deserialize_newtype_struct, which forwards
\* to it: up to the visitor's call.
deserialize_tuple_struct ==
    /\ AtTy({"tuple_struct"})
    /\ \E r \in {enter_tuple_struct(state, Head(ctl).ty.name)} :
       LET t == Head(ctl).ty
       IN  IF r.out # "ok" THEN Abort(r)
           ELSE Go(r, <<EvV("visit_seq", Len(r.st), r.v)>>,
                   << CVisitSeq(r.n, FALSE, TUnit, t.elems, 0, "tuple_struct", t.name),
                      CLeave, CLeave >> \o Tail(ctl),
                   vals)

\* deserialize_unit_struct
deserialize_unit_struct ==
    /\ AtTy({"unit_struct"})
    /\ \E a \in {begin_struct(state, Head(ctl).ty.name)} :
          IF a.out # "ok" THEN Abort(a)
          ELSE \E b \in {Then(a, next_value(a.st))} :
                  IF b.out # "ok" THEN Abort(b)
                  ELSE IF ~from_value_ref("unit", b.v)
                       THEN Fail("err", TypeMismatch, b.st, b.rd, b.ev)
                       ELSE \E c \in {Then(b, leave_seq(b.st))} :
                               IF c.out # "ok" THEN Abort(c)
                               ELSE Go(c, <<EvV("visit", Len(c.st), b.v)>>, Tail(ctl),
                                       Append(vals,
                                              Host("unit_struct", 0, Head(ctl).ty.name,
                                                   <<>>)))

\* deserialize_struct: up to the visitor's call.
deserialize_struct ==
    /\ AtTy({"struct"})
    /\ \E r \in {enter_struct(state, Head(ctl).ty.name)} :
       LET t == Head(ctl).ty
       IN  IF r.out # "ok" THEN Abort(r)
           ELSE Go(r, <<EvV("visit_map", Len(r.st), r.v)>>,
                   << CVisitMap(r.n, TRUE, Desc(t.name, t.fields, t.elems), 0, {}, "struct"),
                      CLeave, CLeave >> \o Tail(ctl),
                   vals)

----------------------------------------------------------------------------
(* Tagged unions.                                                          *)

\* deserialize_enum: the peek and the choice of the access object; the
\* visitor's visit_enum then calls variant_seed on it.
deserialize_enum ==
    /\ AtTy({"enum"})
    /\ \E p \in {peek_value(state)} :
           IF p.out # "ok" THEN Abort(p)
           ELSE Go(p, <<EvV("visit_enum", Len(p.st), p.v)>>,
                   <<CVariantSeed(p.v.tag # "List", Head(ctl).ty)>> \o Tail(ctl), vals)

\* The variant-name seed of a derived enum: the variant the text names.
HasVariant(t, text) == \E i \in 1..Len(t.variants) : t.variants[i].name = text
VariantOf(t, text) ==
    t.variants[CHOOSE i \in 1..Len(t.variants) : t.variants[i].name = text]

\* <Variant as EnumAccess>::variant_seed
Variant_variant_seed ==
    /\ At("variant_seed")
    /\ ~Head(ctl).unit
    /\ \E a \in {enter_seq(state)} :
          IF a.out # "ok" THEN Abort(a)
          ELSE \E b \in {Then(a, read_name(a.st))} :
                  LET t == Head(ctl).ty
                  IN  IF b.out # "ok" THEN Abort(b)
                      ELSE IF ~HasVariant(t, WithName(b.v.n))
                           THEN Fail("err", UnknownVariant, b.st, b.rd, b.ev)
                           ELSE Go(b, <<>>,
                                   <<CAccess(VariantOf(t, WithName(b.v.n)))>> \o Tail(ctl),
                                   vals)

\* <UnitVariant as EnumAccess>::variant_seed
UnitVariant_variant_seed ==
    /\ At("variant_seed")
    /\ Head(ctl).unit
    /\ \E b \in {read_name(state)} :
       LET t == Head(ctl).ty
       IN  IF b.out # "ok" THEN Abort(b)
           ELSE IF ~HasVariant(t, WithName(b.v.n))
                THEN Fail("err", UnknownVariant, b.st, b.rd, b.ev)
                ELSE Go(b, <<>>, <<CAccess(VariantOf(t, WithName(b.v.n)))>> \o Tail(ctl),
                        vals)

\* Variant::unit_variant
unit_variant ==
    /\ At("variant_access")
    /\ Head(ctl).var.shape = "unit"
    /\ Ctl(<<>>, Tail(ctl), Append(vals, Host("unit_variant", 0, Head(ctl).var.name, <<>>)))

\* Variant::newtype_variant_seed: up to the seed's deserialize.
newtype_variant_seed ==
    /\ At("variant_access")
    /\ Head(ctl).var.shape = "newtype"
    /\ LET v == Head(ctl).var
       IN  Ctl(<<>>,
               <<CDeser(v.elems[1]), CLeave, CBuild("newtype_variant", v.name, 1)>>
                   \o Tail(ctl),
               vals)

\* Variant::tuple_variant: up to the visitor's call.
tuple_variant ==
    /\ At("variant_access")
    /\ Head(ctl).var.shape = "tuple"
    /\ LET v == Head(ctl).var
       IN  Ctl(<<EvV("variant_visit_seq", Len(state), VUnit)>>,
               << CVisitSeq(Len(v.elems), FALSE, TUnit, v.elems, 0, "tuple_variant", v.name),
                  CLeave >> \o Tail(ctl),
               vals)

\* struct_variant that leaves the variant's list as well as the field list.
struct_variant_balanced ==
    /\ At("variant_access")
    /\ Head(ctl).var.shape = "struct"
    /\ \E r \in {enter_fields(state)} :
       LET v == Head(ctl).var
       IN  IF r.out # "ok" THEN Abort(r)
           ELSE Go(r, <<EvV("variant_visit_map", Len(r.st), VUnit)>>,
                   << CVisitMap(r.n, TRUE, Desc(v.name, v.fields, v.elems), 0, {},
                                "struct_variant"),
                      CLeave, CLeave >> \o Tail(ctl),
                   vals)

\* Variant::struct_variant: up to the visitor's call.
struct_variant ==
    /\ At("variant_access")
    /\ Head(ctl).var.shape = "struct"
    /\ \E r \in {enter_fields(state)} :
       LET v == Head(ctl).var
       IN  IF r.out # "ok" THEN Abort(r)
           ELSE Go(r, <<EvV("variant_visit_map", Len(r.st), VUnit)>>,
                   << CVisitMap(r.n, TRUE, Desc(v.name, v.fields, v.elems), 0, {},
                                "struct_variant"),
                      CLeave >> \o Tail(ctl),
                   vals)

----------------------------------------------------------------------------
(* decode_value.                                                           *)

\* decode_value without finish's check of the cursor stack.
finish_unchecked ==
    /\ status = "running"
    /\ ctl = <<>>
    /\ status' = "ok" /\ err' = err
    /\ UNCHANGED <<ty, src, state, ctl, vals, reads, hist>>

\* decode_value that runs finish on an error of T::deserialize too.
finish_after_error ==
    /\ status \in {"running", "err"}
    /\ ctl = <<>>
    /\ IF state = <<>>
       THEN status' = (IF status = "err" THEN "err" ELSE "ok") /\ err' = err
       ELSE status' = "fatal" /\ err' = StateNotEmpty
    /\ UNCHANGED <<ty, src, state, ctl, vals, reads, hist>>

\* VDeserializer::finish, and decode_value's Ok(v) after it.
finish ==
    /\ status = "running"
    /\ ctl = <<>>
    /\ IF state = <<>>
       THEN status' = "ok" /\ err' = err
       ELSE status' = "fatal" /\ err' = StateNotEmpty
    /\ UNCHANGED <<ty, src, state, ctl, vals, reads, hist>>

----------------------------------------------------------------------------
(* The inputs: target types, and for each the source values offered to it: *)
(* the encodings it accepts and their neighbours (elements missing, added, *)
(* of another tag, another name, another nesting).                         *)

\* All sequences over S of length at most n.
Lists(S, n) == UNION {[1..k -> S] : k \in 0..n}

\* All sequences of length at most n whose odd places are drawn from K and
\* whose even places from V.
Alternating(K, V, n) ==
    UNION {{xs \in [1..k -> K \cup V] :
                \A i \in 1..k : IF i % 2 = 1 THEN xs[i] \in K ELSE xs[i] \in V} :
           k \in 0..n}

Atoms ==
    { VUnit, VBool(1), VInt(3), VFloat(25), VString("Al"), Kw("side"), Sym("Red") }

TAny == TScalar("any")
TVecAny == TSeq(TAny)
TOptI32 == TOption(TI32)
TOptUnit == TOption(TUnit)
TVecI32 == TSeq(TI32)
TVecOptI32 == TSeq(TOption(TI32))
TPairI32 == TTuple(<<TI32, TI32>>)
TMapStrI32 == TMap(TString, TI32)
TShapeAndI32 == TTuple(<<TShape, TI32>>)
TVecShape == TSeq(TShape)
TMapShapeShape == TMap(TShape, TShape)
TColorAndI32 == TTuple(<<TColor, TI32>>)

In(t, S) == {[ty |-> t, src |-> v] : v \in S}

ScalarInputs ==
    UNION {In(t, Atoms \cup {VList(<<VInt(3)>>)}) :
           t \in {TBool, TI32, TF64, TStr, TString, TUnit, TIdentifier, TIgnored,
                  TOptI32, TOptUnit}}
    \cup In(TAny, Atoms \cup {VList(<<VInt(3)>>)})
    \cup In(TVecAny, {VList(xs) : xs \in Lists({VInt(3)}, MaxLen)})
    \cup In(TU8, {VInt(30), VInt(255), VInt(256), VInt(-1), VString("Al")})

SeqInputs ==
    In(TVecI32, {VList(xs) : xs \in Lists({VInt(3), VString("Al")}, MaxLen)})
    \cup In(TVecOptI32, {VList(xs) : xs \in Lists({VInt(3), VUnit}, MaxLen)})
    \cup In(TPairI32,
            {VList(xs) : xs \in Lists({VInt(3), VInt(4), VUnit}, 2 + MaxExtra)})
    \cup In(TVecI32, Atoms) \cup In(TPairI32, Atoms)

\* The entries offered to a string -> i32 mapping.
EntrySources ==
    {VList(xs) : xs \in Alternating({VString("a"), VString("b")}, {VInt(1)}, 2 + MaxExtra)}
    \cup {VList(<<VInt(1), VInt(2)>>), VInt(1)}

MapInputs ==
    In(TMapStrI32, {VList(xs) : xs \in Lists(EntrySources, MaxEntries)})
    \cup In(TMapStrI32, {VUnit, VInt(3)})

\* Lists that start with one of the symbols in names, followed by tail.
Named(names, tails) == {VList(<<nm>> \o tl) : nm \in names, tl \in tails}

MarkerInputs ==
    In(TMarker,
       Named({Sym("Marker"), Sym("Wrong"), Kw("Marker")},
             Lists({VUnit, VInt(3)}, 1 + MaxExtra))
       \cup {VList(<<>>), VUnit, Sym("Marker")})

\* A positional record's fields, flat after the name or in a list of their own.
PointInputs ==
    In(TPoint,
       Named({Sym("Point"), Sym("Wrong")},
             Lists({VInt(3), VInt(4)}, 2 + MaxExtra)
             \cup {<<VList(xs)>> \o ex :
                      xs \in Lists({VInt(3), VInt(4), VUnit}, 2 + MaxExtra),
                      ex \in Lists({VInt(3)}, MaxExtra)})
       \cup {VList(<<>>), VInt(3), Sym("Point")})

\* The field lists offered to Person.
PersonFields ==
    Alternating({Kw("name"), Kw("age"), Kw("side")}, {VString("Al"), VInt(30)},
                2 * (2 + MaxExtra))

PersonInputs ==
    In(TPerson,
       Named({Sym("Person"), Sym("Wrong")},
             {<<VList(xs)>> \o ex : xs \in PersonFields, ex \in Lists({VInt(3)}, MaxExtra)}
             \cup {<<>>, <<Kw("name"), VString("Al"), Kw("age"), VInt(30)>>,
                   <<VList(<<Sym("name"), VString("Al"), Sym("age"), VInt(30)>>)>>})
       \cup {VList(<<>>), VInt(3), Sym("Person")})

\* The payload elements offered to Shape's variants.
ShapePayload ==
    { VFloat(25), VFloat(40), VList(<<Kw("side"), VFloat(40)>>),
      VList(<<Kw("side")>>), VList(<<Kw("side"), VFloat(40), Kw("side")>>) }

ShapeInputs ==
    In(TShape,
       Named({Sym("Circle"), Sym("Square"), Sym("Rect"), Sym("Wrong")},
             Lists(ShapePayload, 2 + MaxExtra))
       \cup {Sym("Circle"), Sym("Square"), Sym("Rect"), Sym("Wrong"), VList(<<>>),
             VList(<<VInt(3)>>), VInt(3), VUnit})

\* Variants whose payload is itself a variant.
OuterInputs ==
    In(TOuter,
       Named({Sym("Wrap"), Sym("Both")},
             Lists({ VList(<<Sym("Circle"), VFloat(25)>>),
                     VList(<<Sym("Square"), VList(<<Kw("side"), VFloat(40)>>)>>),
                     Sym("Circle"), VFloat(25) }, 2)))

ColorInputs ==
    In(TColor,
       {Sym("Red"), Sym("Green"), Sym("Blue"), Sym("Wrong"), Kw("Red"), VInt(3), VUnit,
        VString("Red")}
       \cup Named({Sym("Red"), Sym("Wrong")}, Lists({VUnit, VInt(3)}, MaxExtra)))

\* The entries offered to a Shape -> Shape mapping: key and value each a
\* variant's list, and a single list that holds a named-field variant and
\* after its field list the name and the payload of a newtype variant.
ShapeEntries ==
    { VList(<< VList(<<Sym("Square"), VList(<<Kw("side"), VFloat(40)>>)>>),
               VList(<<Sym("Circle"), VFloat(25)>>) >>),
      VList(<< VList(<<Sym("Circle"), VFloat(25)>>),
               VList(<<Sym("Rect"), VFloat(25), VFloat(40)>>) >>),
      VList(<< VList(<<Sym("Square"), VList(<<Kw("side"), VFloat(40)>>),
                       Sym("Circle"), VFloat(25)>>) >>) }

\* Variants as elements of an enclosing tuple, sequence or mapping, with a
\* sibling after them.
NestedInputs ==
    In(TShapeAndI32,
       {VList(xs) :
           xs \in Lists({ VList(<<Sym("Circle"), VFloat(25)>>),
                          VList(<<Sym("Square"), VList(<<Kw("side"), VFloat(40)>>)>>),
                          VList(<<Sym("Rect"), VFloat(25), VFloat(40)>>),
                          VInt(3) }, 2 + MaxExtra)})
    \cup In(TColorAndI32,
            {VList(xs) : xs \in Lists({Sym("Red"), VList(<<Sym("Red")>>), VInt(3)},
                                      2 + MaxExtra)})
    \cup In(TVecShape,
            {VList(xs) :
                xs \in Lists({ VList(<<Sym("Circle"), VFloat(25)>>),
                               VList(<<Sym("Square"), VList(<<Kw("side"), VFloat(40)>>)>>),
                               VList(<<Sym("Rect"), VFloat(25), VFloat(40)>>),
                               Sym("Circle"), VInt(3) }, MaxLen)})
    \cup In(TMapShapeShape, {VList(xs) : xs \in Lists(ShapeEntries, MaxEntries)})

Inputs ==
    ScalarInputs \cup SeqInputs \cup MapInputs \cup MarkerInputs \cup PointInputs
    \cup PersonInputs \cup ShapeInputs \cup OuterInputs \cup ColorInputs \cup NestedInputs

----------------------------------------------------------------------------
(* The specification.                                                      *)

\* decode_value up to T::deserialize: VDeserializer::new(scope, value).
Init ==
    \E i \in Inputs :
        /\ ty = i.ty
        /\ src = i.src
        /\ state = <<FValue(i.src)>>
        /\ ctl = <<CDeser(i.ty)>>
        /\ vals = <<>>
        /\ status = "running"
        /\ err = ""
        /\ reads = <<>>
        /\ hist = <<>>

Next ==
    \/ deserialize_any
    \/ deserialize_scalar
    \/ deserialize_string
    \/ deserialize_unit
    \/ deserialize_option
    \/ deserialize_identifier
    \/ deserialize_ignored_any
    \/ visitor_return
    \/ deserialize_seq
    \/ next_element_seed
    \/ visit_seq_return
    \/ leave
    \/ deserialize_map
    \/ next_key_seed
    \/ next_value_seed
    \/ deserialize_tuple_struct
    \/ deserialize_unit_struct
    \/ deserialize_struct
    \/ deserialize_enum
    \/ Variant_variant_seed
    \/ UnitVariant_variant_seed
    \/ unit_variant
    \/ newtype_variant_seed
    \/ tuple_variant
    \/ struct_variant
    \/ finish

Spec == Init /\ [][Next]_vars

\* The decode has returned or panicked.
Done == status # "running"

\* The value decode_value returns on success.
Result == vals[1]

\* The events of h whose kind is in evs, in order.
RECURSIVE Only(_, _)
Only(h, evs) ==
    IF h = <<>> THEN <<>>
    ELSE IF Head(h).ev \in evs THEN <<Head(h)>> \o Only(Tail(h), evs)
         ELSE Only(Tail(h), evs)

\* The kinds of the events so far, in order.
EvNames == [i \in 1..Len(hist) |-> hist[i].ev]

\* The frames pushed and popped so far, in order.
Frames == [i \in 1..Len(Only(hist, {"push", "pop"})) |->
              Only(hist, {"push", "pop"})[i].ev]

\* The decode failed with reported error e.
FailedWith(e) == status = "err" /\ err = e

IsSym(v, text) == v.tag = "Name" /\ WithName(v.n) = text
IsKey(v, text) == v.tag \in {"Keyword", "Name"} /\ WithName(v.n) = text

\* The host value a scalar target of kind k makes of value v.
ScalarHost(k, v) == Host(k, v.n, v.s, <<>>)

\* The host value a String target makes of value v.
StringHost(v) == Host("string", 0, IF v.tag = "String" THEN v.s ELSE WithName(v.n), <<>>)

\* The host value a scalar or String target t makes of value v.
HostOf(t, v) == IF t.k = "string" THEN StringHost(v) ELSE ScalarHost(t.k, v)

----------------------------------------------------------------------------
(* Well-formed sources: the layout sections 4.2 to 4.4 of the              *)
(* specification give for each target shape.                               *)

RECURSIVE WellFormed(_, _)
WellFormedFields(fs, ts, xs) ==
    /\ Len(xs) = 2 * Len(fs)
    /\ \A i \in 1..Len(fs) : IsKey(xs[2 * i - 1], fs[i]) /\ WellFormed(ts[i], xs[2 * i])

WellFormedVariant(w, v) ==
    CASE w.shape = "unit" -> IsSym(v, w.name)
      [] w.shape = "newtype" ->
            /\ v.tag = "List" /\ Len(v.items) = 2 /\ IsSym(v.items[1], w.name)
            /\ WellFormed(w.elems[1], v.items[2])
      [] w.shape = "tuple" ->
            /\ v.tag = "List" /\ Len(v.items) = 1 + Len(w.elems)
            /\ IsSym(v.items[1], w.name)
            /\ \A i \in 1..Len(w.elems) : WellFormed(w.elems[i], v.items[i + 1])
      [] OTHER ->
            /\ v.tag = "List" /\ Len(v.items) = 2 /\ IsSym(v.items[1], w.name)
            /\ v.items[2].tag = "List"
            /\ WellFormedFields(w.fields, w.elems, v.items[2].items)

WellFormed(t, v) ==
    CASE t.k \in {"bool", "i32", "u8", "f64", "str", "unit"} -> from_value_ref(t.k, v)
      [] t.k = "string" -> v.tag \in {"String", "Keyword"}
      [] t.k = "identifier" -> v.tag \in {"Keyword", "Name"}
      [] t.k = "ignored_any" -> TRUE
      [] t.k = "option" -> v.tag = "Unit" \/ WellFormed(t.elems[1], v)
      [] t.k = "seq" ->
            v.tag = "List" /\ \A i \in 1..Len(v.items) : WellFormed(t.elems[1], v.items[i])
      [] t.k = "tuple" ->
            /\ v.tag = "List" /\ Len(v.items) = Len(t.elems)
            /\ \A i \in 1..Len(t.elems) : WellFormed(t.elems[i], v.items[i])
      [] t.k = "map" ->
            /\ v.tag = "List"
            /\ \A i \in 1..Len(v.items) :
                  /\ v.items[i].tag = "List" /\ Len(v.items[i].items) = 2
                  /\ WellFormed(t.elems[1], v.items[i].items[1])
                  /\ WellFormed(t.elems[2], v.items[i].items[2])
      [] t.k = "unit_struct" ->
            /\ v.tag = "List" /\ Len(v.items) = 2 /\ IsSym(v.items[1], t.name)
            /\ v.items[2].tag = "Unit"
      [] t.k = "tuple_struct" ->
            /\ v.tag = "List" /\ Len(v.items) = 1 + Len(t.elems)
            /\ IsSym(v.items[1], t.name)
            /\ \A i \in 1..Len(t.elems) : WellFormed(t.elems[i], v.items[i + 1])
      [] t.k = "struct" ->
            /\ v.tag = "List" /\ Len(v.items) = 2 /\ IsSym(v.items[1], t.name)
            /\ v.items[2].tag = "List"
            /\ WellFormedFields(t.fields, t.elems, v.items[2].items)
      [] t.k = "enum" ->
            \E i \in 1..Len(t.variants) : WellFormedVariant(t.variants[i], v)
      [] OTHER -> FALSE

----------------------------------------------------------------------------
(* C1.  A decode of a well-formed source never ends in a fatal             *)
(* stack-imbalance failure: finish finds the cursor stack empty, and no    *)
(* primitive finds a frame missing or of the wrong kind.                   *)
C1_WellFormedNeverFatal == WellFormed(ty, src) => status # "fatal"

----------------------------------------------------------------------------
(* C2.  A tagged union decodes from a list headed by the variant's name: a *)
(* newtype variant from (V x) to V(decode(x)), a named-field variant from  *)
(* (V (k1 v1 ... kn vn)) to V{k1: v1, ...}; so (Circle 2.5) gives          *)
(* Circle(2.5) and (Square (:side 4.0)) gives Square{side: 4.0}.           *)

\* The source is the list form of variant `name`, well formed.
ListVariant(name) ==
    /\ ty.k = "enum" /\ src.tag = "List" /\ Len(src.items) >= 1
    /\ IsSym(src.items[1], name)
    /\ WellFormed(ty, src)

C2_TaggedUnionDecodes ==
    /\ (ListVariant("Circle") /\ Done) =>
          /\ status = "ok"
          /\ Result = Host("newtype_variant", 0, "Circle",
                           <<ScalarHost("f64", src.items[2])>>)
    /\ (ListVariant("Square") /\ Done) =>
          /\ status = "ok"
          /\ Result = Host("struct_variant", 0, "Square",
                           <<Host("field", 0, "side",
                                  <<ScalarHost("f64", src.items[2].items[2])>>)>>)

----------------------------------------------------------------------------
(* C3.  A positional record.                                               *)

\* The source is (Name f1 ... fk), the fields beside the name.
FlatRecord(k) ==
    /\ ty.k = "tuple_struct" /\ src.tag = "List" /\ Len(src.items) = 1 + k
    /\ IsSym(src.items[1], ty.name)
    /\ \A i \in 2..(1 + k) : src.items[i].tag = "Integer"

\* The source is (Name (f1 ... fk)), the fields in a list of their own.
NestedRecord(k) ==
    /\ ty.k = "tuple_struct" /\ src.tag = "List" /\ Len(src.items) = 2
    /\ IsSym(src.items[1], ty.name)
    /\ src.items[2].tag = "List" /\ Len(src.items[2].items) = k
    /\ \A i \in 1..k : src.items[2].items[i].tag = "Integer"

\* The record made of the fields xs, in positional order.
RecordOf(xs) ==
    Host("tuple_struct", 0, ty.name, [i \in 1..Len(ty.elems) |-> ScalarHost("i32", xs[i])])

----------------------------------------------------------------------------
(* C4.  Arity of positional records and positional variants.               *)

\* The source is (V x1 ... xk) for a positional variant V of the target
\* that declares floats, with floats in the places the variant declares.
TupleVariantWith(k) ==
    /\ ty.k = "enum" /\ src.tag = "List" /\ Len(src.items) = 1 + k
    /\ src.items[1].tag = "Name" /\ HasVariant(ty, WithName(src.items[1].n))
    /\ VariantOf(ty, WithName(src.items[1].n)).shape = "tuple"
    /\ \A i \in 1..Len(VariantOf(ty, WithName(src.items[1].n)).elems) :
          VariantOf(ty, WithName(src.items[1].n)).elems[i] = TF64
    /\ \A i \in 2..(1 + k) :
          i <= 1 + Len(VariantOf(ty, WithName(src.items[1].n)).elems)
              => src.items[i].tag = "Float"

\* The declared arity of the positional variant the source names.
VariantArity == Len(VariantOf(ty, WithName(src.items[1].n)).elems)

\* The source is (Name (f1 ... fk)) with integers in the declared places.
NestedRecordWith(k) ==
    /\ ty.k = "tuple_struct" /\ src.tag = "List" /\ Len(src.items) = 2
    /\ IsSym(src.items[1], ty.name)
    /\ src.items[2].tag = "List" /\ Len(src.items[2].items) = k
    /\ \A i \in 1..k : i <= Len(ty.elems) => src.items[2].items[i].tag = "Integer"

\* The payload lengths the model offers.
Lengths == 0..(2 + MaxExtra)

----------------------------------------------------------------------------
(* C5.  A leading name that resolves to unexpected text.                   *)

RecordWrongName ==
    /\ ty.k \in {"unit_struct", "tuple_struct", "struct"}
    /\ src.tag = "List" /\ Len(src.items) >= 1
    /\ src.items[1].tag = "Name" /\ WithName(src.items[1].n) # ty.name

VariantWrongName ==
    /\ ty.k = "enum"
    /\ src.tag = "List" /\ Len(src.items) >= 1
    /\ src.items[1].tag = "Name" /\ ~HasVariant(ty, WithName(src.items[1].n))

\* Nothing but the list and its leading name token has been read.
OnlyNameRead ==
    \/ reads = <<>>
    \/ reads = <<src>>
    \/ reads = <<src, src.items[1]>>

\* C5 as stated: a record's or a variant's leading name that resolves to
\* text other than the expected name fails the decode with the name-mismatch
\* error, whatever follows the name and before anything after it is read.
C5_NameMismatchAsStated ==
    (RecordWrongName \/ VariantWrongName) =>
        OnlyNameRead /\ (Done => FailedWith(NameMismatch))

\* C5 as amended: a leading name that resolves to unexpected text fails the
\* decode whatever follows it, before anything after the name is read, and
\* so ahead of odd-keyword-parameters, end-of-sequence and extraneous
\* elements.  For a record the engine compares the name with the registered
\* one and reports the name-mismatch error (begin_struct); for a variant
\* the engine makes no comparison: it hands the name to the variant-name
\* seed, which reports its own unknown-variant error (variant_seed).
C5_NameMismatchFirst ==
    /\ RecordWrongName => OnlyNameRead /\ (Done => FailedWith(NameMismatch))
    /\ VariantWrongName => OnlyNameRead /\ (Done => FailedWith(UnknownVariant))

\* A wrong name before a field list of odd length.
C5_Witness ==
    /\ RecordWrongName /\ ty.k = "struct" /\ Len(src.items) >= 2
    /\ src.items[2].tag = "List" /\ Len(src.items[2].items) % 2 = 1
    /\ FailedWith(NameMismatch)

----------------------------------------------------------------------------
(* C6.  A named-field list of odd length.                                  *)

\* The source is (Name L ...) for a named-field record Name, or (V L ...)
\* for a named-field variant V of the target, L a list.
NamedFieldSource ==
    /\ src.tag = "List" /\ Len(src.items) >= 2
    /\ src.items[1].tag = "Name" /\ src.items[2].tag = "List"
    /\ \/ ty.k = "struct" /\ WithName(src.items[1].n) = ty.name
       \/ /\ ty.k = "enum" /\ HasVariant(ty, WithName(src.items[1].n))
          /\ VariantOf(ty, WithName(src.items[1].n)).shape = "struct"

\* The elements of the field list.
FieldList == src.items[2].items

\* Nothing of the field list's elements has been read: the reads so far are
\* the source, its name token and the field list itself.
NoFieldRead ==
    /\ Len(reads) <= 3
    /\ reads = SubSeq(<<src, src.items[1], src.items[2]>>, 1, Len(reads))
    /\ Only(hist, {"field", "visit_map", "variant_visit_map"}) = <<>>

\* C6: a named-field list with an odd number of elements fails the decode
\* with odd-keyword-parameters, whichever fields the target declares and
\* whatever the list holds, before any field identifier or field value of
\* the list is read.
C6_OddFieldList ==
    (NamedFieldSource /\ Len(FieldList) % 2 = 1) =>
        NoFieldRead /\ (Done => FailedWith(OddKeywordParams))

\* Both a record's and a variant's odd field list have been refused.
C6_Witness ==
    /\ NamedFieldSource /\ ty.k = "enum" /\ Len(FieldList) = 3
    /\ FailedWith(OddKeywordParams)

----------------------------------------------------------------------------
(* C7.  A named-field record.                                              *)

\* The place of field name f in the declared fields fs, 0 if undeclared.
FieldIndex(fs, f) ==
    IF \E i \in 1..Len(fs) : fs[i] = f THEN CHOOSE i \in 1..Len(fs) : fs[i] = f ELSE 0

\* The number of key/value pairs of the field list.
Pairs == Len(FieldList) \div 2

\* The text of the k-th key of the field list.
KeyText(k) == WithName(FieldList[2 * k - 1].n)

\* The source is (Name L ...) for the named-field record Name, and L is a
\* field list the record's visitor accepts: keys are identifiers, every
\* declared field occurs once with a value of its type.
GoodRecord ==
    /\ ty.k = "struct" /\ NamedFieldSource
    /\ Len(FieldList) % 2 = 0
    /\ \A k \in 1..Pairs :
          /\ FieldList[2 * k - 1].tag \in {"Keyword", "Name"}
          /\ FieldIndex(ty.fields, KeyText(k)) # 0 =>
                WellFormed(ty.elems[FieldIndex(ty.fields, KeyText(k))], FieldList[2 * k])
    /\ \A i \in 1..Len(ty.fields) :
          Cardinality({k \in 1..Pairs : KeyText(k) = ty.fields[i]}) = 1

\* The record the pairs of the field list make: each declared field with
\* the value that follows its key.
RecordOfPairs ==
    Host("struct", 0, ty.name,
         [i \in 1..Len(ty.fields) |->
             Host("field", 0, ty.fields[i],
                  <<HostOf(ty.elems[i],
                           FieldList[2 * (CHOOSE k \in 1..Pairs :
                                             KeyText(k) = ty.fields[i])])>>)])

----------------------------------------------------------------------------
(* C8.  Option.                                                            *)

\* C8: option decoding on a unit value consumes that value and reports
\* none, also when the payload type decodes from unit; on any other value
\* it consumes nothing itself and reports some of what the wrapped type
\* decodes from that same value, which is consumed once.  Within a sequence
\* every element is consumed once, unit elements as none.
C8_OptionLaw ==
    /\ (ty.k = "option" /\ src.tag = "Unit" /\ Done) =>
          status = "ok" /\ Result = HNone /\ reads = <<src>> /\ state = <<>>
    /\ (ty.k = "option" /\ src.tag # "Unit" /\ EvNames = <<"visit_some">>
        /\ At("deserialize")) =>
          reads = <<>> /\ state = <<FValue(src)>> /\ Head(ctl).ty = ty.elems[1]
    /\ (ty.k = "option" /\ src.tag # "Unit" /\ Done) =>
          /\ reads = <<src>>
          /\ IF WellFormed(ty.elems[1], src)
             THEN status = "ok" /\ Result = Host("Some", 0, "", <<HostOf(ty.elems[1], src)>>)
             ELSE FailedWith(TypeMismatch)
    /\ (ty = TVecOptI32 /\ src.tag = "List" /\ Done) =>
          /\ status = "ok"
          /\ reads = <<src>> \o src.items
          /\ Result = Host("seq", 0, "",
                           [i \in 1..Len(src.items) |->
                               IF src.items[i].tag = "Unit" THEN HNone
                               ELSE Host("Some", 0, "", <<ScalarHost("i32", src.items[i])>>)])

\* A sequence of options decoded from a unit and an integer.
C8_Witness ==
    /\ ty = TVecOptI32 /\ src.tag = "List" /\ Len(src.items) >= 2
    /\ src.items[1].tag = "Unit" /\ src.items[2].tag = "Integer"
    /\ status = "ok"

----------------------------------------------------------------------------
(* C9.  Mappings.                                                          *)

\* e is an entry of a String -> i32 mapping.
GoodEntry(e) ==
    /\ e.tag = "List" /\ Len(e.items) = 2
    /\ e.items[1].tag \in {"String", "Keyword"} /\ e.items[2].tag = "Integer"

\* The first i - 1 entries of the source are good and the i-th is a list of
\* k elements that starts as a good entry does.
FirstBadEntry(i, k) ==
    /\ i <= Len(src.items)
    /\ \A j \in 1..(i - 1) : GoodEntry(src.items[j])
    /\ src.items[i].tag = "List" /\ Len(src.items[i].items) = k
    /\ k >= 1 => src.items[i].items[1].tag \in {"String", "Keyword"}
    /\ k >= 2 => src.items[i].items[2].tag = "Integer"

----------------------------------------------------------------------------
(* C10.  A zero-argument variant from a bare symbol.                       *)

\* The source is a bare name symbol that names a zero-argument variant.
BareUnitVariant ==
    /\ ty.k = "enum" /\ src.tag = "Name"
    /\ HasVariant(ty, WithName(src.n))
    /\ VariantOf(ty, WithName(src.n)).shape = "unit"

\* C10: a zero-argument variant decodes from a bare name symbol: the symbol
\* is the one value read, no frame is pushed, no payload is decoded, and
\* the decode returns the variant the symbol names with the stack empty.
\* As an element of a tuple the bare symbol leaves the tuple's frame on its
\* next element.
C10_BareUnitVariant ==
    /\ BareUnitVariant =>
          /\ Frames = <<>>
          /\ Len(state) <= 1
          /\ Only(hist, {"visit", "visit_seq", "visit_map", "variant_visit_seq",
                          "variant_visit_map"}) = <<>>
          /\ Done =>
                /\ status = "ok"
                /\ Result = Host("unit_variant", 0, WithName(src.n), <<>>)
                /\ reads = <<src>>
                /\ state = <<>>
    /\ (ty = TColorAndI32 /\ src = VList(<<Sym("Red"), VInt(3)>>) /\ Done) =>
          /\ status = "ok"
          /\ reads = <<src>> \o src.items
          /\ Result.items[1] = Host("unit_variant", 0, "Red", <<>>)

C10_Witness == BareUnitVariant /\ WithName(src.n) = "Red" /\ status = "ok"

----------------------------------------------------------------------------
(* C11.  A fully open-ended target (deserialize_any).                      *)

\* C11 as stated: a decode into an open-ended target always fails with the
\* unsupported-decode error, a reported error returned to the caller, for
\* every source value and every stack state.
C11_AnyReported ==
    [][AtTy({"any"}) => status' = "err" /\ err' = NotImplemented]_vars

\* C11 as amended: a decode into an open-ended target always fails, for
\* every source value and every stack state, without reading a value or
\* touching the stack; the failure is a panic (unimplemented!), fatal, and
\* not a reported error returned to the caller.
C11_AnyPanics ==
    [][AtTy({"any"}) =>
          /\ status' = "fatal" /\ err' = NotImplemented
          /\ state' = state /\ reads' = reads /\ hist' = hist /\ vals' = vals]_vars

\* An open-ended element of a sequence was asked for, inside the list's frame.
C11_Witness ==
    /\ ty = TVecAny /\ src.tag = "List" /\ Len(src.items) >= 1
    /\ status = "fatal" /\ err = NotImplemented /\ Len(state) = 1
    /\ state[1].kind = "Seq"

----------------------------------------------------------------------------
(* C12.  The cursor stack during a decode.                                 *)

\* The calls of visitor callbacks so far.
VisitorCalls ==
    Only(hist, {"visit", "visit_none", "visit_some", "visit_seq", "visit_map",
                "visit_enum", "variant_visit_seq", "variant_visit_map"})

\* The calls of the callbacks that take the deserializer or an access object
\* and go on reading through it, but for tuple_variant's call of visit_seq.
ReadingCalls ==
    Only(hist, {"visit_some", "visit_seq", "visit_map", "visit_enum", "variant_visit_map"})

\* C12 as stated: the cursor stack is non-empty in every state of a decode
\* that still has something to run, is empty when the decode returns, and
\* is non-empty whenever a visitor callback runs.
C12_NonEmptyDuringDecode ==
    /\ Running => state # <<>>
    /\ \A i \in 1..Len(VisitorCalls) : VisitorCalls[i].depth >= 1
    /\ status = "ok" => state = <<>>

\* C12 as amended: the cursor stack is non-empty when a decode starts and
\* whenever a callback that reads through the deserializer (visit_some,
\* visit_seq, visit_map, visit_enum) is called, tuple_variant's call of
\* visit_seq for a variant named by a bare symbol excepted; once a handler
\* has left it empty no frame is pushed again; and a decode that returns
\* success returns with the stack empty and every frame it pushed popped.
\* A scalar callback runs after its value is taken, at the top level on an
\* empty stack, and callbacks still return after that.
C12_EmptyOnlyAtEnd ==
    [][/\ hist = <<>> => state # <<>>
       /\ state = <<>> => state' = <<>>
       /\ \A i \in 1..Len(ReadingCalls') : ReadingCalls'[i].depth >= 1
       /\ status' = "ok" =>
             /\ state' = <<>>
             /\ Len(Only(hist', {"push"})) = Len(Only(hist', {"pop"}))]_vars

\* A sequence of options decoded: scalar callbacks inside visit_seq, the
\* stack empty only once the list's frame is closed.
C12_Witness ==
    /\ ty = TVecOptI32 /\ src.tag = "List" /\ Len(src.items) = 2
    /\ status = "ok" /\ state = <<>> /\ Len(Only(hist, {"push"})) = 1

----------------------------------------------------------------------------
(* C13.  The frame a named-field variant leaves behind.                    *)

\* v is the well-formed list of the variant of Shape named text.
IsVariantList(text, v) == v.tag = "List" /\ WellFormedVariant(VariantOf(TShape, text), v)

\* The decode is inside a top-level sequence's visit_seq, between elements.
BetweenElements ==
    /\ ty.k = "seq" /\ src.tag = "List" /\ status = "running"
    /\ Len(ctl) = 2 /\ ctl[1].op = "visit_seq"

\* The elements the sequence's visitor has taken, and those yet to come.
Taken == ctl[1].got
Rest == SubSeq(src.items, Taken + 1, Len(src.items))

\* Element i of the source is a named-field variant's list and the elements
\* before it are lists of newtype and positional variants.
FirstSquareAt(i) ==
    /\ i <= Len(src.items) /\ IsVariantList("Square", src.items[i])
    /\ \A j \in 1..(i - 1) :
          IsVariantList("Circle", src.items[j]) \/ IsVariantList("Rect", src.items[j])

\* A named-field variant's visit_map has been called.
StructVariantVisited == Only(hist, {"variant_visit_map"}) # <<>>

\* After a named-field variant is decoded its field-list frame is popped and
\* the variant's own frame is still on top of the stack: at the top level
\* finish finds it; within a sequence it lies over the sequence's frame, and
\* the next element is asked of it and fails with end-of-sequence, the
\* sibling in the sequence left unread.
LeftoverVariantFrame ==
    /\ (ty = TShape /\ IsVariantList("Square", src) /\ status = "running" /\ ctl = <<>>) =>
          state = <<FSeq(<<>>)>> /\ Frames = <<"push", "push", "pop">>
    /\ (ty = TShape /\ IsVariantList("Square", src) /\ Done) =>
          status = "fatal" /\ err = StateNotEmpty
    /\ (ty = TVecShape /\ BetweenElements /\ Taken >= 1 /\ FirstSquareAt(Taken)) =>
          state = <<FSeq(Rest), FSeq(<<>>)>>
    /\ \A i \in 1..MaxLen :
          (ty = TVecShape /\ src.tag = "List" /\ FirstSquareAt(i) /\ Done) =>
              IF i < Len(src.items)
              THEN /\ FailedWith(EndOfSequence)
                   /\ reads[Len(reads)] = src.items[i].items[2].items[2]
              ELSE status = "fatal" /\ err = StateNotEmpty

\* C13 as stated: the variant's frame is left on the stack as above, and no
\* decode in which a named-field variant is decoded returns success.
C13_NeverSucceeds ==
    /\ LeftoverVariantFrame
    /\ StructVariantVisited => status # "ok"

\* C13 as amended: the variant's frame is left on the stack as above, and
\* no decode of a well-formed source in which a named-field variant is
\* decoded returns success.  A source that is not well formed can: in a
\* mapping entry ((Square (:side 4.0) Circle 2.5)) the key's leftover
\* variant frame supplies the value's bare name and payload, and the
\* newtype variant's leave_seq closes it.
C13_LeftoverFrame ==
    /\ LeftoverVariantFrame
    /\ (WellFormed(ty, src) /\ StructVariantVisited) => status # "ok"

\* A named-field variant followed by a sibling in a sequence.
C13_Witness ==
    /\ ty = TVecShape /\ src.tag = "List" /\ Len(src.items) = 2 /\ FirstSquareAt(1)
    /\ FailedWith(EndOfSequence)

----------------------------------------------------------------------------
(* C14.  The frame of a newtype or positional variant.                     *)

\* v is a list headed by the name of a newtype or positional variant of
\* enum t.
PayloadVariantList(t, v) ==
    /\ v.tag = "List" /\ Len(v.items) >= 1 /\ v.items[1].tag = "Name"
    /\ HasVariant(t, WithName(v.items[1].n))
    /\ VariantOf(t, WithName(v.items[1].n)).shape \in {"newtype", "tuple"}

\* C14: once a newtype or positional variant has been decoded from its
\* list, the frame pushed to read its name has been popped, and the stack
\* is as if the list had been read as one value of the enclosing frame: at
\* the top level the stack is empty, within a sequence the sequence's frame
\* is on top, advanced past the variants decoded so far.
C14_VariantFrameClosed ==
    /\ (ty.k = "enum" /\ PayloadVariantList(ty, src) /\ status = "running" /\ ctl = <<>>) =>
          state = <<>>
    /\ (ty.k = "seq" /\ ty.elems[1].k = "enum" /\ BetweenElements
        /\ \A j \in 1..Taken : PayloadVariantList(ty.elems[1], src.items[j])) =>
          state = <<FSeq(Rest)>>

\* The same for variants of Shape, whose payloads hold no variant.
C14_ScalarPayloads ==
    /\ (ty = TShape /\ PayloadVariantList(ty, src) /\ status = "running" /\ ctl = <<>>) =>
          state = <<>>
    /\ (ty = TVecShape /\ BetweenElements
        /\ \A j \in 1..Taken : PayloadVariantList(ty.elems[1], src.items[j])) =>
          state = <<FSeq(Rest)>>

----------------------------------------------------------------------------
(* C15.  What a decode of one shape consumes.                              *)

\* Value v is decoded as target t by anything but a variant's list form.
NotListVariant(t, v) == ~(t.k = "enum" /\ v.tag = "List")

\* C15: a successful decode of a shape, a variant's list form aside, takes
\* exactly one value of the frame on top when it began and leaves no frame
\* of its own: at the top level, where that frame is the Single frame, the
\* stack is empty when T::deserialize returns; within a sequence the
\* sequence's frame is on top again after every element, advanced by the
\* elements decoded so far.
C15_OneValueConsumed ==
    /\ (status = "running" /\ ctl = <<>> /\ NotListVariant(ty, src)) =>
          /\ state = <<>>
          /\ Len(Only(hist, {"push"})) = Len(Only(hist, {"pop"}))
    /\ (BetweenElements /\ \A j \in 1..Taken : NotListVariant(ty.elems[1], src.items[j])) =>
          state = <<FSeq(Rest)>>

----------------------------------------------------------------------------
(* C16.  leave_seq and the lists a decode enters.                          *)

\* The number of elements of the lists entered by the push events of h.
RECURSIVE Entered(_)
Entered(h) == IF h = <<>> THEN 0 ELSE Len(Head(h).v.items) + Entered(Tail(h))

\* C16: leave_seq pops the Iteration frame on top and succeeds only if the
\* frame is exhausted, failing with extraneous elements otherwise; so a
\* decode that returns success has read every element of every list it
\* entered, once: its reads are the source and the elements of the lists
\* entered, no more (none run past) and no fewer (none left early).
C16_ListsReadToTheEnd ==
    [][/\ (At("leave_seq") /\ state # <<>> /\ Top(state).kind = "Seq") =>
             IF Top(state).iter = <<>>
             THEN state' = Pop(state) /\ status' = "running"
             ELSE status' = "err" /\ err' = Extraneous
       /\ status' = "ok" => Len(reads') = 1 + Entered(Only(hist', {"push"}))]_vars

\* A record with a field too many in its list was refused on leaving it.
C16_Witness ==
    /\ ty = TPoint /\ NestedRecordWith(Len(ty.elems) + 1)
    /\ FailedWith(Extraneous) /\ Len(reads) = 5

----------------------------------------------------------------------------
(* C17.  peek_value against next_value.                                    *)

\* What a primitive's outcome tells its caller: Ok(v) or Err(e).
Outcome(r) == <<r.out, r.e, r.v>>

\* C17: in every state with a non-empty stack, peek_value leaves the stack
\* as it is, takes no value, and returns the outcome next_value would return
\* from that state: the Single frame's value, the Iteration frame's next
\* element, or end-of-sequence when the Iteration frame is exhausted.
C17_PeekIsNextWithoutTaking ==
    state # <<>> =>
        /\ peek_value(state).st = state
        /\ peek_value(state).rd = <<>> /\ peek_value(state).ev = <<>>
        /\ Outcome(peek_value(state)) = Outcome(next_value(state))
        /\ Outcome(peek_value(state)) =
               IF Top(state).kind = "Value" THEN <<"ok", "", Top(state).v>>
               ELSE IF Top(state).iter # <<>>
                    THEN <<"ok", "", Head(Top(state).iter)>>
                    ELSE <<"err", EndOfSequence, VUnit>>

\* deserialize_option has peeked at an element of a sequence and called
\* visit_some: the element is still the frame's next one.
C17_Witness ==
    /\ hist # <<>> /\ hist[Len(hist)].ev = "visit_some"
    /\ state # <<>> /\ Top(state).kind = "Seq" /\ Top(state).iter # <<>>
    /\ Head(Top(state).iter) = hist[Len(hist)].v
    /\ Len(Top(state).iter) < Len(src.items)

----------------------------------------------------------------------------
(* C18.  Arity of tuples.                                                  *)

Min(a, b) == IF a < b THEN a ELSE b

\* The target is a tuple and the source a list of k elements, those in the
\* declared places well formed for their declared types.
TupleWith(k) ==
    /\ ty.k = "tuple" /\ src.tag = "List" /\ Len(src.items) = k
    /\ \A i \in 1..Min(k, Len(ty.elems)) : WellFormed(ty.elems[i], src.items[i])

\* One of the elements in the declared places is a named-field variant.
NamedFieldElement(k) ==
    \E i \in 1..Min(k, Len(ty.elems)) :
        ty.elems[i] = TShape /\ IsVariantList("Square", src.items[i])

----------------------------------------------------------------------------
(* C19.  A reported error ends the decode.                                 *)

\* The panic messages; the other failures are ExecError values.
PanicMessages == {MissingState, NotASequence, StateNotEmpty, NotImplemented}

\* C19: once a step of a decode fails with a reported error the decode
\* stops: the failing step calls no visitor callback and leaves nothing to
\* run, no step follows it (no value is read, no callback driven, finish
\* is not evaluated), and what decode_value returns is that error, whatever
\* frames the aborted decode left on the stack.
C19_ErrorEndsDecode ==
    [][/\ status # "err"
       /\ status' = "err" =>
             /\ ctl' = <<>> /\ vals' = vals /\ err' \notin PanicMessages
             /\ Len(VisitorCalls') = Len(VisitorCalls)
       /\ status' = "fatal" /\ err' = StateNotEmpty =>
             status = "running" /\ ctl = <<>> /\ reads' = reads]_vars

\* An element of a sequence failed with a type mismatch: the sequence's
\* frame is on the stack, with an element unread, and the error stands.
C19_Witness ==
    /\ ty = TVecI32 /\ FailedWith(TypeMismatch)
    /\ state # <<>> /\ Top(state).kind = "Seq" /\ Top(state).iter # <<>>
    /\ ctl = <<>>

----------------------------------------------------------------------------
(* C20.  Unit records.                                                     *)

\* The source is a list that starts with the unit record's registered name.
UnitRecordList ==
    /\ ty.k = "unit_struct" /\ src.tag = "List" /\ src.items # <<>>
    /\ IsSym(src.items[1], ty.name)

\* C20: an empty record registered as Name decodes successfully from the
\* two-element list (Name ()) and from nothing else, with every frame it
\* pushed popped and the stack empty; (Name) fails with end-of-sequence, a
\* second element that is not unit with a type mismatch, and an element
\* after the unit filler with extraneous elements.
C20_UnitRecord ==
    (ty.k = "unit_struct" /\ Done) =>
        /\ status = "ok" <=>
              UnitRecordList /\ Len(src.items) = 2 /\ src.items[2].tag = "Unit"
        /\ status = "ok" =>
              /\ Result = Host("unit_struct", 0, ty.name, <<>>)
              /\ state = <<>> /\ Frames = <<"push", "pop">>
              /\ reads = <<src>> \o src.items
        /\ (UnitRecordList /\ Len(src.items) = 1) => FailedWith(EndOfSequence)
        /\ (UnitRecordList /\ Len(src.items) >= 2 /\ src.items[2].tag # "Unit") =>
              FailedWith(TypeMismatch)
        /\ (UnitRecordList /\ Len(src.items) > 2 /\ src.items[2].tag = "Unit") =>
              FailedWith(Extraneous)

\* (Marker ()) has been decoded.
C20_Witness ==
    /\ ty = TMarker /\ src = VList(<<Sym("Marker"), VUnit>>)
    /\ status = "ok" /\ Len(hist) = 3

====
